---- MODULE Spec2Model ----
(***************************************************************************)
(* Model of agentic-whatsapp-agent.py: configuration loading and module    *)
(* initialisation, LLM backend selection, response generation, outbound    *)
(* dispatch through the messaging provider and the message handler.        *)
(*                                                                         *)
(* Python str values are sequences of one-character strings, so that       *)
(* lower(), upper(), strip() and slicing are computed.  Python None is the *)
(* value None below.  A Python call is an operator that yields a result    *)
(* record: how the call ended (returned / raised), its return value, the   *)
(* logger calls it made, and the provider requests it issued.  The two     *)
(* providers (OpenAI chat completion, Twilio message create) are external: *)
(* what they answer is chosen nondeterministically by the actions.         *)
(***************************************************************************)
EXTENDS Integers, Sequences, FiniteSets, TLC

VARIABLES
    file,                    \* persona_config.json as found on disk
    pc,                      \* "boot" | "fatal" | "idle" | "done" | "crashed"
    config,                  \* module global config
    log_level,               \* level handed to logging.basicConfig
    TWILIO_WHATSAPP_NUMBER,  \* module global
    RECIPIENT_NUMBER,        \* module global
    llm_backend,             \* module global: the selected backend object
    startup_log,             \* logger calls made during module initialisation
    last,                    \* the call in progress / just finished, with its result
    priorFailure             \* history: some earlier call failed or raised

vars == <<file, pc, config, log_level, TWILIO_WHATSAPP_NUMBER, RECIPIENT_NUMBER,
          llm_backend, startup_log, last, priorFailure>>

globals == <<config, log_level, TWILIO_WHATSAPP_NUMBER, RECIPIENT_NUMBER, llm_backend>>

----------------------------------------------------------------------------
(* Bounds *)

\* how many sections / fields a configuration file may lack
MaxMissing == 1

----------------------------------------------------------------------------
(* Python values *)

None == <<"None">>

\* bool(x) for x a str or None
Truthy(x) == x # None /\ x # <<>>

UpperCase == <<"A","B","C","D","E","F","G","H","I","J","K","L","M",
               "N","O","P","Q","R","S","T","U","V","W","X","Y","Z">>
LowerCase == <<"a","b","c","d","e","f","g","h","i","j","k","l","m",
               "n","o","p","q","r","s","t","u","v","w","x","y","z">>

LowerChar(c) ==
    IF \E i \in 1..26 : UpperCase[i] = c
    THEN LowerCase[CHOOSE i \in 1..26 : UpperCase[i] = c]
    ELSE c

UpperChar(c) ==
    IF \E i \in 1..26 : LowerCase[i] = c
    THEN UpperCase[CHOOSE i \in 1..26 : LowerCase[i] = c]
    ELSE c

\* str.lower()
Lower(s) == [i \in 1..Len(s) |-> LowerChar(s[i])]

\* str.upper()
Upper(s) == [i \in 1..Len(s) |-> UpperChar(s[i])]

IsSpace(c) == c \in {" ", "\t", "\n", "\r"}

RECURSIVE LStrip(_)
LStrip(s) == IF s # <<>> /\ IsSpace(Head(s)) THEN LStrip(Tail(s)) ELSE s

RECURSIVE RStrip(_)
RStrip(s) ==
    IF s # <<>> /\ IsSpace(s[Len(s)]) THEN RStrip(SubSeq(s, 1, Len(s) - 1)) ELSE s

\* str.strip()
Strip(s) == RStrip(LStrip(s))

\* number of occurrences of event ev in a trace
RECURSIVE Count(_, _)
Count(tr, ev) ==
    IF tr = <<>> THEN 0
    ELSE (IF Head(tr) = ev THEN 1 ELSE 0) + Count(Tail(tr), ev)

----------------------------------------------------------------------------
(* The configuration file *)

\* values of settings.llm_backend tried
BackendNames == {
    <<"o","p","e","n","a","i">>,
    <<"O","p","e","n","A","I">>,
    <<"G","R","O","Q">>,
    <<"g","r","o","q">>,
    <<"H","u","g","g","i","n","g","F","a","c","e">>,
    <<"c","l","a","u","d","e">>
}

\* values of settings.log_level tried
LogLevelNames == {
    <<"i","n","f","o">>,
    <<"E","R","R","O","R">>,
    <<"l","o","u","d">>
}

\* the level attributes of the logging module
LoggingLevels == {
    <<"D","E","B","U","G">>,
    <<"I","N","F","O">>,
    <<"W","A","R","N","I","N","G">>,
    <<"W","A","R","N">>,
    <<"E","R","R","O","R">>,
    <<"C","R","I","T","I","C","A","L">>,
    <<"F","A","T","A","L">>,
    <<"N","O","T","S","E","T">>
}

\* a complete persona_config.json
FullJson(backend, logging, level) == [
    persona |-> [
        name          |-> <<"B","o","t">>,
        system_prompt |-> <<"B","e"," ","k","i","n","d">>,
        temperature   |-> 7,      \* tenths
        max_tokens    |-> 150,
        greeting      |-> <<"Y","o","!">>
    ],
    settings |-> [
        llm_backend       |-> backend,
        model             |-> <<"g","p","t">>,
        fallback_response |-> <<"S","o","r","r","y">>,
        enable_logging    |-> logging,
        log_level         |-> level
    ],
    twilio |-> [
        whatsapp_number  |-> <<"+","1">>,
        recipient_number |-> <<"+","2">>
    ]
]

\* the sections and fields the program reads
Droppable ==
    { <<"persona">>, <<"settings">>, <<"twilio">> }
    \cup { <<"persona", k>> : k \in {"name", "system_prompt", "temperature", "max_tokens"} }
    \cup { <<"settings", k>> : k \in {"llm_backend", "model", "fallback_response",
                                      "enable_logging", "log_level"} }
    \cup { <<"twilio", k>> : k \in {"whatsapp_number", "recipient_number"} }

Drops == { d \in SUBSET Droppable : Cardinality(d) <= MaxMissing }

\* json without the sections and fields in d
Drop(json, d) ==
    [ s \in { x \in DOMAIN json : <<x>> \notin d } |->
        [ k \in { y \in DOMAIN json[s] : <<s, y>> \notin d } |-> json[s][k] ] ]

NoConfig == [ s \in {} |-> {} ]

\* backend / logging / log level combinations tried
Bases ==
    { <<b, l, <<"i","n","f","o">> >> : b \in BackendNames, l \in BOOLEAN }
    \cup { <<(<<"o","p","e","n","a","i">>), TRUE, lv>> : lv \in LogLevelNames }

Files ==
    { [status |-> "missing", json |-> NoConfig],
      [status |-> "malformed", json |-> NoConfig] }
    \cup { [status |-> "ok", json |-> Drop(FullJson(b[1], b[2], b[3]), d)] :
             b \in Bases, d \in Drops }

HasKey(c, s, k) == s \in DOMAIN c /\ k \in DOMAIN c[s]

\* a configuration with every field the program reads
ConfigComplete(c) == \A p \in Droppable :
    IF Len(p) = 1 THEN p[1] \in DOMAIN c ELSE HasKey(c, p[1], p[2])

----------------------------------------------------------------------------
(* Results of calls.  The trace of a call lists, in order, the logger calls *)
(* it made ("info", "warning", "error") and the functions and provider     *)
(* operations it entered.                                                  *)

Returned(v, lg, calls, sends) ==
    [outcome |-> "returned", exc |-> "", value |-> v, trace |-> lg,
     llm_calls |-> calls, sends |-> sends]

Raised(e, lg, calls, sends) ==
    [outcome |-> "raised", exc |-> e, value |-> None, trace |-> lg,
     llm_calls |-> calls, sends |-> sends]

\* result r of a call to function fn: fn is entered first
Entered(fn, r) == [r EXCEPT !.trace = <<fn>> \o @]

----------------------------------------------------------------------------
(* Start-up: load_persona_config and the module-level statements *)

load_persona_config(f) ==
    IF f.status = "missing" THEN Raised("FileNotFoundError", <<>>, <<>>, <<>>)
    ELSE IF f.status = "malformed" THEN Raised("JSONDecodeError", <<>>, <<>>, <<>>)
    ELSE Returned(f.json, <<>>, <<>>, <<>>)

OpenAIBackend(model, temperature, max_tokens) ==
    [kind |-> "openai", model |-> model, temperature |-> temperature,
     max_tokens |-> max_tokens]

GroqBackend(model, temperature, max_tokens) ==
    [kind |-> "groq", model |-> model, temperature |-> temperature,
     max_tokens |-> max_tokens]

HuggingFaceBackend(model, temperature, max_tokens) ==
    [kind |-> "huggingface", model |-> model, temperature |-> temperature,
     max_tokens |-> max_tokens]

NoBackend == [kind |-> "none", model |-> None, temperature |-> 0, max_tokens |-> 0]

\* mutant of get_llm_backend: the backend name is compared without lower()
get_llm_backend_case_sensitive(c) ==
    IF ~HasKey(c, "settings", "llm_backend") THEN Raised("KeyError", <<>>, <<>>, <<>>)
    ELSE IF ~HasKey(c, "settings", "model") THEN Raised("KeyError", <<>>, <<>>, <<>>)
    ELSE IF ~HasKey(c, "persona", "temperature") THEN Raised("KeyError", <<>>, <<>>, <<>>)
    ELSE IF ~HasKey(c, "persona", "max_tokens") THEN Raised("KeyError", <<>>, <<>>, <<>>)
    ELSE
      LET backend_type == c["settings"]["llm_backend"]
          model        == c["settings"]["model"]
          temperature  == c["persona"]["temperature"]
          max_tokens   == c["persona"]["max_tokens"]
      IN  IF backend_type = <<"o","p","e","n","a","i">>
          THEN Returned(OpenAIBackend(model, temperature, max_tokens), <<>>, <<>>, <<>>)
          ELSE IF backend_type = <<"g","r","o","q">>
          THEN Returned(GroqBackend(model, temperature, max_tokens), <<>>, <<>>, <<>>)
          ELSE IF backend_type = <<"h","u","g","g","i","n","g","f","a","c","e">>
          THEN Returned(HuggingFaceBackend(model, temperature, max_tokens), <<>>, <<>>, <<>>)
          ELSE Returned(OpenAIBackend(model, temperature, max_tokens),
                        <<"warning">>, <<>>, <<>>)

get_llm_backend(c) ==
    IF ~HasKey(c, "settings", "llm_backend") THEN Raised("KeyError", <<>>, <<>>, <<>>)
    ELSE IF ~HasKey(c, "settings", "model") THEN Raised("KeyError", <<>>, <<>>, <<>>)
    ELSE IF ~HasKey(c, "persona", "temperature") THEN Raised("KeyError", <<>>, <<>>, <<>>)
    ELSE IF ~HasKey(c, "persona", "max_tokens") THEN Raised("KeyError", <<>>, <<>>, <<>>)
    ELSE
      LET backend_type == Lower(c["settings"]["llm_backend"])
          model        == c["settings"]["model"]
          temperature  == c["persona"]["temperature"]
          max_tokens   == c["persona"]["max_tokens"]
      IN  IF backend_type = <<"o","p","e","n","a","i">>
          THEN Returned(OpenAIBackend(model, temperature, max_tokens), <<>>, <<>>, <<>>)
          ELSE IF backend_type = <<"g","r","o","q">>
          THEN Returned(GroqBackend(model, temperature, max_tokens), <<>>, <<>>, <<>>)
          ELSE IF backend_type = <<"h","u","g","g","i","n","g","f","a","c","e">>
          THEN Returned(HuggingFaceBackend(model, temperature, max_tokens), <<>>, <<>>, <<>>)
          ELSE Returned(OpenAIBackend(model, temperature, max_tokens),
                        <<"warning">>, <<>>, <<>>)

\* The module-level statements, in order.  The value of a returned result is
\* the tuple of globals <<config, level, sender, recipient, backend>>.
ModuleInit(f) ==
    LET loaded == load_persona_config(f) IN
    IF loaded.outcome = "raised" THEN loaded
    ELSE LET c == loaded.value IN
    IF ~HasKey(c, "settings", "log_level") THEN Raised("KeyError", <<>>, <<>>, <<>>)
    ELSE IF Upper(c["settings"]["log_level"]) \notin LoggingLevels
         THEN Raised("AttributeError", <<>>, <<>>, <<>>)
    ELSE IF ~HasKey(c, "twilio", "whatsapp_number") THEN Raised("KeyError", <<>>, <<>>, <<>>)
    ELSE IF ~HasKey(c, "twilio", "recipient_number") THEN Raised("KeyError", <<>>, <<>>, <<>>)
    ELSE LET b == get_llm_backend(c) IN
         IF b.outcome = "raised" THEN b
         ELSE Returned(<<c, Upper(c["settings"]["log_level"]),
                         c["twilio"]["whatsapp_number"],
                         c["twilio"]["recipient_number"], b.value>>,
                       b.trace, <<>>, <<>>)

NoCall == [op |-> "none", message |-> None, system_prompt |-> None, body |-> None,
           number |-> None, llm |-> [kind |-> "none", content |-> None],
           twilio |-> "none", outcome |-> "returned", exc |-> "", value |-> None,
           trace |-> <<>>, llm_calls |-> <<>>, sends |-> <<>>]

Init ==
    /\ file \in Files
    /\ pc = "boot"
    /\ config = NoConfig
    /\ log_level = None
    /\ TWILIO_WHATSAPP_NUMBER = None
    /\ RECIPIENT_NUMBER = None
    /\ llm_backend = NoBackend
    /\ startup_log = <<>>
    /\ last = NoCall
    /\ priorFailure = FALSE

\* import of the module: a configuration error is fatal
Start ==
    /\ pc = "boot"
    /\ LET r == ModuleInit(file) IN
       IF r.outcome = "raised"
       THEN /\ pc' = "fatal"
            /\ last' = [NoCall EXCEPT !.op = "startup", !.outcome = "raised",
                                      !.exc = r.exc]
            /\ UNCHANGED <<globals, startup_log>>
       ELSE /\ pc' = "idle"
            /\ config' = r.value[1]
            /\ log_level' = r.value[2]
            /\ TWILIO_WHATSAPP_NUMBER' = r.value[3]
            /\ RECIPIENT_NUMBER' = r.value[4]
            /\ llm_backend' = r.value[5]
            /\ startup_log' = r.trace
            /\ last' = [NoCall EXCEPT !.op = "startup"]
    /\ UNCHANGED <<file, priorFailure>>

----------------------------------------------------------------------------
(* Provider answers *)

\* what openai_client.chat.completions.create does: it raises, or returns a
\* response with no choice, with a choice whose content is None, or with text
LlmOutcomes == {
    [kind |-> "raise", content |-> None],
    [kind |-> "no_choices", content |-> None],
    [kind |-> "null_content", content |-> None],
    [kind |-> "text", content |-> <<" ","o","k"," ">>],
    [kind |-> "text", content |-> <<>>]
}

LlmFailed(o) == o.kind \in {"raise", "no_choices", "null_content"}

\* what client.messages.create does: it raises, or returns a message object
\* whose body is the body sent or None
TwilioOutcomes == {"raise", "ok_echo", "ok_null_body"}

MessageBody(t, body) == IF t = "ok_echo" THEN body ELSE None

----------------------------------------------------------------------------
(* Inputs *)

Messages == {
    None,
    <<>>,
    <<"h","i">>,
    <<"H","e","l","l","o">>,
    <<"H","E","Y">>,
    <<" "," ","h","e","y"," "," ">>,
    <<"j","o","k","e">>
}

Prompts == { None, <<>>, <<"B","e"," ","k","i","n","d">> }

Numbers == { None, <<>>, <<"+","3">> }

Bodies == { <<"O","K">>, <<"S","o","r","r","y">> }

GroqNotImplemented ==
    <<"G","r","o","q"," ","b","a","c","k","e","n","d"," ","n","o","t"," ","y",
      "e","t"," ","i","m","p","l","e","m","e","n","t","e","d","."," ","P",
      "l","e","a","s","e"," ","u","s","e"," ","O","p","e","n","A","I"," ",
      "b","a","c","k","e","n","d",".">>

HuggingFaceNotImplemented ==
    <<"H","u","g","g","i","n","g"," ","F","a","c","e"," ","b","a","c","k","e",
      "n","d"," ","n","o","t"," ","y","e","t"," ","i","m","p","l","e","m",
      "e","n","t","e","d","."," ","P","l","e","a","s","e"," ","u","s","e",
      " ","O","p","e","n","A","I"," ","b","a","c","k","e","n","d",".">>

sample_messages == <<
    <<"H","e","l","l","o","!"," ","H","o","w"," ","a","r","e"," ","y","o","u",
      "?">>,
    <<"W","h","a","t"," ","c","a","n"," ","y","o","u"," ","h","e","l","p"," ",
      "m","e"," ","w","i","t","h","?">>,
    <<"T","e","l","l"," ","m","e"," ","a"," ","j","o","k","e">>,
    <<"W","h","a","t","'","s"," ","t","h","e"," ","w","e","a","t","h","e","r",
      " ","l","i","k","e","?">>,
    <<"T","h","a","n","k"," ","y","o","u"," ","f","o","r"," ","y","o","u","r",
      " ","h","e","l","p","!">>
>>

----------------------------------------------------------------------------
(* LLM backends *)

\* the chat-completion request of OpenAIBackend.generate_response
ChatRequest(message, system_prompt) ==
    [model |-> llm_backend.model,
     messages |-> (IF Truthy(system_prompt)
                   THEN << [role |-> "system", content |-> system_prompt] >>
                   ELSE <<>>)
                  \o << [role |-> "user", content |-> message] >>,
     temperature |-> llm_backend.temperature,
     max_tokens |-> llm_backend.max_tokens]

OpenAI_generate_response(message, system_prompt, o) ==
    LET calls == << ChatRequest(message, system_prompt) >> IN
    IF ~LlmFailed(o)
    THEN Returned(Strip(o.content), <<"chat.completions.create">>, calls, <<>>)
    \* except Exception: create raised, choices[0] raised IndexError or
    \* None.strip() raised AttributeError
    ELSE IF HasKey(config, "settings", "fallback_response")
         THEN Returned(config["settings"]["fallback_response"],
                       <<"chat.completions.create", "error">>, calls, <<>>)
         ELSE Raised("KeyError", <<"chat.completions.create", "error">>, calls, <<>>)

Groq_generate_response(message, system_prompt) ==
    Returned(GroqNotImplemented, <<>>, <<>>, <<>>)

HuggingFace_generate_response(message, system_prompt) ==
    Returned(HuggingFaceNotImplemented, <<>>, <<>>, <<>>)

\* llm_backend.generate_response(message, system_prompt), dispatched on the
\* class of the selected backend
generate_response(message, system_prompt, o) ==
    Entered("generate_response",
        IF llm_backend.kind = "openai"
        THEN OpenAI_generate_response(message, system_prompt, o)
        ELSE IF llm_backend.kind = "groq"
        THEN Groq_generate_response(message, system_prompt)
        ELSE HuggingFace_generate_response(message, system_prompt))

----------------------------------------------------------------------------
(* Outbound dispatch *)

\* mutant of send_whatsapp_message: a provider exception is not caught
send_whatsapp_message_uncaught(body, to_number, t) ==
    LET recipient == IF Truthy(to_number) THEN to_number ELSE RECIPIENT_NUMBER
        attempt   == << [from_ |-> TWILIO_WHATSAPP_NUMBER, body |-> body,
                         to |-> recipient] >>
    IN  Entered("send_whatsapp_message",
        IF t = "raise"
        THEN Raised("TwilioRestException", <<"messages.create">>, <<>>, attempt)
        ELSE IF ~HasKey(config, "settings", "enable_logging")
        THEN Returned(FALSE, <<"messages.create", "error">>, <<>>, attempt)
        ELSE IF ~config["settings"]["enable_logging"]
        THEN Returned(TRUE, <<"messages.create">>, <<>>, attempt)
        ELSE IF MessageBody(t, body) = None
        THEN Returned(FALSE, <<"messages.create", "error">>, <<>>, attempt)
        ELSE Returned(TRUE, <<"messages.create", "info">>, <<>>, attempt))

send_whatsapp_message(body, to_number, t) ==
    LET recipient == IF Truthy(to_number) THEN to_number ELSE RECIPIENT_NUMBER
        attempt   == << [from_ |-> TWILIO_WHATSAPP_NUMBER, body |-> body,
                         to |-> recipient] >>
    IN  Entered("send_whatsapp_message",
        \* client.messages.create raised
        IF t = "raise"
        THEN Returned(FALSE, <<"messages.create", "error">>, <<>>, attempt)
        \* config['settings']['enable_logging'] raised KeyError inside the try
        ELSE IF ~HasKey(config, "settings", "enable_logging")
        THEN Returned(FALSE, <<"messages.create", "error">>, <<>>, attempt)
        ELSE IF ~config["settings"]["enable_logging"]
        THEN Returned(TRUE, <<"messages.create">>, <<>>, attempt)
        \* message.body[:50] raised TypeError inside the try
        ELSE IF MessageBody(t, body) = None
        THEN Returned(FALSE, <<"messages.create", "error">>, <<>>, attempt)
        ELSE Returned(TRUE, <<"messages.create", "info">>, <<>>, attempt))

----------------------------------------------------------------------------
(* Generation and the message handler *)

\* the except clause of generate_ai_response, reached with the logger calls
\* and provider requests made so far
GenerateAiExcept(lg, calls) ==
    IF HasKey(config, "settings", "fallback_response")
    THEN Returned(config["settings"]["fallback_response"], lg \o <<"error">>, calls, <<>>)
    ELSE Raised("KeyError", lg \o <<"error">>, calls, <<>>)

generate_ai_response(user_message, o) ==
    Entered("generate_ai_response",
    \* config['persona']['system_prompt'] raised KeyError
    IF ~HasKey(config, "persona", "system_prompt") THEN GenerateAiExcept(<<>>, <<>>)
    ELSE
      LET r == generate_response(user_message, config["persona"]["system_prompt"], o) IN
      IF r.outcome = "raised" THEN GenerateAiExcept(r.trace, r.llm_calls)
      \* config['settings']['enable_logging'] raised KeyError
      ELSE IF ~HasKey(config, "settings", "enable_logging")
      THEN GenerateAiExcept(r.trace, r.llm_calls)
      ELSE IF ~config["settings"]["enable_logging"] THEN r
      \* user_message[:30] raised TypeError
      ELSE IF user_message = None THEN GenerateAiExcept(r.trace, r.llm_calls)
      ELSE Returned(r.value, r.trace \o <<"info">>, r.llm_calls, <<>>))

handle_incoming_message(user_message, from_number, o, t) ==
    Entered("handle_incoming_message",
    \* user_message[:50] raised TypeError
    IF user_message = None THEN Raised("TypeError", <<>>, <<>>, <<>>)
    ELSE
      LET g == generate_ai_response(user_message, o) IN
      IF g.outcome = "raised"
      THEN Raised(g.exc, <<"info">> \o g.trace, g.llm_calls, <<>>)
      ELSE
        LET s == send_whatsapp_message(g.value, from_number, t) IN
        IF s.outcome = "raised"
        THEN Raised(s.exc, <<"info">> \o g.trace \o s.trace, g.llm_calls, s.sends)
        ELSE Returned(None,
                      <<"info">> \o g.trace \o s.trace
                          \o (IF s.value THEN <<"info">> ELSE <<"error">>),
                      g.llm_calls, s.sends))

\* the loop of demo_conversation from sample message i on; os[i] is the
\* provider's answer to the i-th request
RECURSIVE DemoLoop(_, _, _, _, _)
DemoLoop(i, os, responses, lg, calls) ==
    IF i > Len(sample_messages) THEN Returned(responses, lg, calls, <<>>)
    ELSE
      LET g == generate_ai_response(sample_messages[i], os[i]) IN
      IF g.outcome = "raised" THEN Raised(g.exc, lg \o g.trace, calls \o g.llm_calls, <<>>)
      ELSE DemoLoop(i + 1, os, Append(responses, g.value), lg \o g.trace,
                    calls \o g.llm_calls)

demo_conversation(os) ==
    Entered("demo_conversation",
    \* config['persona']['name'] raised KeyError
    IF ~HasKey(config, "persona", "name") THEN Raised("KeyError", <<>>, <<>>, <<>>)
    ELSE DemoLoop(1, os, <<>>, <<>>, <<>>))

\* the provider answers tried in the demo conversation
DemoOutcomes == {
    [kind |-> "raise", content |-> None],
    [kind |-> "text", content |-> <<" ","o","k"," ">>]
}

----------------------------------------------------------------------------
(* Actions: one per entry point, called by the host between requests *)

Call(op, message, system_prompt, body, number, o, t, r) ==
    [op |-> op, message |-> message, system_prompt |-> system_prompt,
     body |-> body, number |-> number, llm |-> o, twilio |-> t,
     outcome |-> r.outcome, exc |-> r.exc, value |-> r.value, trace |-> r.trace,
     llm_calls |-> r.llm_calls, sends |-> r.sends]

NoLlm == [kind |-> "none", content |-> None]

GenerateResponse ==
    /\ pc = "idle"
    /\ \E message \in Messages, system_prompt \in Prompts, o \in LlmOutcomes :
         last' = Call("generate_response", message, system_prompt, None, None,
                      o, "none", generate_response(message, system_prompt, o))
    /\ pc' = "done"
    /\ UNCHANGED <<file, globals, startup_log, priorFailure>>

\* mutant of SendWhatsappMessage: the recipient of a send becomes the default
\* recipient of the sends that follow
SendWhatsappMessage_keeps_recipient ==
    /\ pc = "idle"
    /\ \E body \in Bodies, to_number \in Numbers, t \in TwilioOutcomes :
         LET r == send_whatsapp_message(body, to_number, t) IN
         /\ last' = Call("send_whatsapp_message", None, None, body, to_number,
                         NoLlm, t, r)
         /\ RECIPIENT_NUMBER' = r.sends[1].to
    /\ pc' = "done"
    /\ UNCHANGED <<file, config, log_level, TWILIO_WHATSAPP_NUMBER, llm_backend,
                   startup_log, priorFailure>>

SendWhatsappMessage ==
    /\ pc = "idle"
    /\ \E body \in Bodies, to_number \in Numbers, t \in TwilioOutcomes :
         last' = Call("send_whatsapp_message", None, None, body, to_number,
                      NoLlm, t, send_whatsapp_message(body, to_number, t))
    /\ pc' = "done"
    /\ UNCHANGED <<file, globals, startup_log, priorFailure>>

GenerateAiResponse ==
    /\ pc = "idle"
    /\ \E user_message \in Messages, o \in LlmOutcomes :
         last' = Call("generate_ai_response", user_message, None, None, None,
                      o, "none", generate_ai_response(user_message, o))
    /\ pc' = "done"
    /\ UNCHANGED <<file, globals, startup_log, priorFailure>>

HandleIncomingMessage ==
    /\ pc = "idle"
    /\ \E user_message \in Messages, from_number \in Numbers,
          o \in LlmOutcomes, t \in TwilioOutcomes :
         last' = Call("handle_incoming_message", user_message, None, None,
                      from_number, o, t,
                      handle_incoming_message(user_message, from_number, o, t))
    /\ pc' = "done"
    /\ UNCHANGED <<file, globals, startup_log, priorFailure>>

DemoConversation ==
    /\ pc = "idle"
    /\ \E os \in [1..Len(sample_messages) -> DemoOutcomes] :
         last' = Call("demo_conversation", None, None, None, None,
                      NoLlm, "none", demo_conversation(os))
    /\ pc' = "done"
    /\ UNCHANGED <<file, globals, startup_log, priorFailure>>

CallFailed == last.outcome = "raised" \/ Count(last.trace, "error") > 0

\* the call's result goes back to the host, which goes on to the next request
Return ==
    /\ pc = "done"
    /\ pc' = "idle"
    /\ last' = NoCall
    /\ priorFailure' = (priorFailure \/ CallFailed)
    /\ UNCHANGED <<file, globals, startup_log>>

\* an exception nothing catches ends the process
Crash ==
    /\ pc = "done"
    /\ last.outcome = "raised"
    /\ pc' = "crashed"
    /\ UNCHANGED <<file, globals, startup_log, last, priorFailure>>

Next ==
    \/ Start
    \/ GenerateResponse
    \/ SendWhatsappMessage
    \/ GenerateAiResponse
    \/ HandleIncomingMessage
    \/ DemoConversation
    \/ Return
    \/ Crash

Spec == Init /\ [][Next]_vars

\* the process started from a configuration file that lacks nothing
InitComplete == Init /\ file.status = "ok" /\ ConfigComplete(file.json)

SpecComplete == InitComplete /\ [][Next]_vars

----------------------------------------------------------------------------
(* Properties *)

Started == pc \in {"idle", "done", "crashed"}

Finished(op) == pc \in {"done", "crashed"} /\ last.op = op

Errors == Count(last.trace, "error")

\* C1: with the OpenAI backend, when the chat-completion call fails (it
\* raises, or its response has no choice or no content), generate_response
\* raises nothing, returns exactly settings.fallback_response and logs exactly
\* one error.
C1_OpenAIFailureReturnsFallback ==
    (Finished("generate_response") /\ llm_backend.kind = "openai" /\ LlmFailed(last.llm))
    => /\ last.outcome = "returned"
       /\ HasKey(config, "settings", "fallback_response")
       /\ last.value = config["settings"]["fallback_response"]
       /\ Errors = 1

\* C2: when the messaging provider's send call throws, send_whatsapp_message
\* returns False, logs the error and raises nothing; the handler that called
\* it returns too, after logging that the response was not sent.
C2_SendFailureNotDelivered ==
    /\ (Finished("send_whatsapp_message") /\ last.twilio = "raise")
       => /\ last.outcome = "returned"
          /\ last.value = FALSE
          /\ Errors = 1
    /\ (Finished("handle_incoming_message") /\ last.twilio = "raise"
          /\ Count(last.trace, "messages.create") = 1)
       => /\ last.outcome = "returned"
          /\ last.trace[Len(last.trace)] = "error"

C2_Witness ==
    /\ Finished("send_whatsapp_message")
    /\ last.twilio = "raise"
    /\ last.outcome = "returned"
    /\ last.value = FALSE
    /\ Len(last.sends) = 1

\* C3: whenever the provider's send call succeeds, send_whatsapp_message(body,
\* None) returns True and the one request made went from the configured
\* sender number to the configured default recipient, whatever the
\* configuration's enable_logging and whatever message object came back.
C3_SendSuccessDelivered ==
    (Finished("send_whatsapp_message") /\ last.number = None /\ last.twilio # "raise")
    => /\ last.outcome = "returned"
       /\ last.value = TRUE
       /\ last.sends = << [from_ |-> config["twilio"]["whatsapp_number"],
                           body |-> last.body,
                           to |-> config["twilio"]["recipient_number"]] >>

\* C4: every handle_incoming_message invocation returns normally, for every
\* inbound message (a missing or empty one included) and every combination
\* of provider failures; the process is never ended by one.
C4_HandlerNeverRaises ==
    /\ Finished("handle_incoming_message") => last.outcome = "returned"
    /\ pc # "crashed"

\* C5: a configuration error (file missing, malformed, or any required field
\* missing) is fatal at start-up: the process never gets to handle a message
\* or call a provider with a partial configuration.
C5_ConfigErrorFatal ==
    /\ (pc # "boot" /\ ~(file.status = "ok" /\ ConfigComplete(file.json)))
       => pc = "fatal"
    /\ (Finished("handle_incoming_message") \/ last.llm_calls # <<>> \/ last.sends # <<>>)
       => ConfigComplete(config)

\* C6: the selected backend is a function of lower-cased settings.llm_backend:
\* "openai", "groq", "huggingface" in any letter case select their variant
\* with no warning, anything else logs one warning and selects OpenAI; the
\* backend carries the configured model, temperature and max_tokens.
C6_BackendSelection ==
    Started =>
      LET name == Lower(config["settings"]["llm_backend"]) IN
      /\ name = <<"o","p","e","n","a","i">>
           => llm_backend.kind = "openai" /\ startup_log = <<>>
      /\ name = <<"g","r","o","q">>
           => llm_backend.kind = "groq" /\ startup_log = <<>>
      /\ name = <<"h","u","g","g","i","n","g","f","a","c","e">>
           => llm_backend.kind = "huggingface" /\ startup_log = <<>>
      /\ name \notin { <<"o","p","e","n","a","i">>, <<"g","r","o","q">>,
                       <<"h","u","g","g","i","n","g","f","a","c","e">> }
           => llm_backend.kind = "openai" /\ startup_log = <<"warning">>
      /\ llm_backend.model = config["settings"]["model"]
      /\ llm_backend.temperature = config["persona"]["temperature"]
      /\ llm_backend.max_tokens = config["persona"]["max_tokens"]

C6_Witness ==
    /\ pc = "idle"
    /\ config["settings"]["llm_backend"] = <<"G","R","O","Q">>
    /\ llm_backend.kind = "groq"
    /\ llm_backend.model = <<"g","p","t">>

\* C7: with the Groq or HuggingFace backend no LLM provider request is ever
\* made, and every generate_response and every generate_ai_response call
\* returns that backend's fixed "not yet implemented" text.
C7_StubsReturnFixedText ==
    (pc \in {"done", "crashed"} /\ llm_backend.kind \in {"groq", "huggingface"})
    => /\ last.llm_calls = <<>>
       /\ Count(last.trace, "chat.completions.create") = 0
       /\ last.op \in {"generate_response", "generate_ai_response"}
            => /\ last.outcome = "returned"
               /\ last.value = IF llm_backend.kind = "groq"
                               THEN GroqNotImplemented
                               ELSE HuggingFaceNotImplemented

Greetings == { <<"h","i">>, <<"h","e","l","l","o">>, <<"h","e","y">> }

\* C8: for an inbound text whose trimmed, case-folded form is "hi", "hello"
\* or "hey" the handler replies with the configured greeting and does not
\* invoke the LLM backend; for any other non-empty text it invokes the LLM
\* backend.
C8_GreetingIsCanned ==
    (Finished("handle_incoming_message") /\ Truthy(last.message))
    => IF Lower(Strip(last.message)) \in Greetings
       THEN /\ Count(last.trace, "generate_response") = 0
            /\ Len(last.sends) = 1
            /\ last.sends[1].body = config["persona"]["greeting"]
       ELSE Count(last.trace, "generate_response") = 1

\* C9: once the process has started, no operation changes the loaded
\* configuration, the selected backend or the sender / default recipient
\* numbers, whether or not a provider call failed.
C9_ConfigurationReadOnly ==
    [][pc # "boot" => UNCHANGED globals]_vars

C9_Witness ==
    /\ priorFailure
    /\ Finished("handle_incoming_message")
    /\ last.outcome = "returned"
    /\ Errors = 0
    /\ config = file.json
    /\ RECIPIENT_NUMBER = config["twilio"]["recipient_number"]

IsStep(e) == e \in {"generate_ai_response", "send_whatsapp_message",
                    "chat.completions.create", "messages.create"}

\* C10: each handle_incoming_message invocation makes exactly one generation
\* step and then exactly one send attempt, with no retry; the body sent is
\* the text generation returned (the fallback text when generation failed),
\* and the recipient is from_number when non-empty, else the default one.
C10_OneGenerationThenOneSend ==
    Finished("handle_incoming_message")
    => /\ Count(last.trace, "generate_ai_response") = 1
       /\ Count(last.trace, "send_whatsapp_message") = 1
       /\ Count(last.trace, "messages.create") = 1
       /\ Count(last.trace, "chat.completions.create") <= 1
       /\ LET steps == SelectSeq(last.trace, IsStep)
          IN  steps[1] = "generate_ai_response"
              /\ steps[Len(steps) - 1] = "send_whatsapp_message"
       /\ Len(last.sends) = 1
       /\ last.sends[1].body = generate_ai_response(last.message, last.llm).value
       /\ (llm_backend.kind = "openai" /\ LlmFailed(last.llm))
            => last.sends[1].body = config["settings"]["fallback_response"]
       /\ last.sends[1].to = IF Truthy(last.number) THEN last.number
                             ELSE config["twilio"]["recipient_number"]

====
